---------------------------- MODULE Spec2Model ----------------------------
(***************************************************************************)
(* A model of the weather dashboard script.                                *)
(*                                                                         *)
(* Two revisions of the script are modelled side by side:                  *)
(*   "script"  - src/script.js: search box, current-location button,       *)
(*               forecast_days=6, forecast list cut off at today;          *)
(*   "part000" - src/unnamed/part_000: auto-locates on page load, has no   *)
(*               reachable search handler, forecast_days=8, forecast list  *)
(*               cut off at tomorrow, extra visibility / day-night fields. *)
(*                                                                         *)
(* JavaScript values are represented as follows.                           *)
(*   - an optional value (undefined / null / absent property) is a         *)
(*     sequence of length 0 or 1: <<>> or <<v>>;                           *)
(*   - an array is a sequence; JavaScript index i is TLA+ index i+1;       *)
(*   - a string that the code compares with <= is a sequence of UTF-16     *)
(*     code units;                                                         *)
(*   - an ISO local date-time "YYYY-MM-DDTHH:00" is <<y, m, d, h>>;        *)
(*   - a Date is the number of hours since ModelEpoch, local time.         *)
(***************************************************************************)
EXTENDS Integers, Sequences, FiniteSets, TLC

(***************************************************************************)
(* Bounds of the model.                                                    *)
(***************************************************************************)
\* Requests (searches, current-location look-ups) started in one run of the
\* "script" revision.
MaxReq == 2
\* Days after ModelEpoch covered by the calendar table.
Horizon == 14
\* formatTemp is applied to the temperatures -MaxTemp .. MaxTemp.
MaxTemp == 60
\* mapWmoToOwmIcon is applied to the codes -1 .. MaxCode.
MaxCode == 100

(***************************************************************************)
(* Optional values and JavaScript array indexing.                          *)
(***************************************************************************)
None == <<>>
Some(x) == <<x>>
Has(o) == o # <<>>
The(o) == o[1]

\* Numbers that stand for two JavaScript values among the numbers of a
\* payload: undefined (what reading past the end of an array gives) and NaN
\* (what arithmetic on undefined gives).  No payload holds them as data.
Undefined == -1000001
NaN == -1000002

\* arr[i]: undefined past the end of the array.
At(arr, i) == IF i < Len(arr) THEN arr[i + 1] ELSE Undefined

\* A number read from a payload used as a condition: 0, undefined and NaN
\* are falsy.
Truthy(x) == x \notin {0, Undefined, NaN}

\* A number read from a payload on which arithmetic gives NaN.
NotANumber(x) == x \in {Undefined, NaN}

(***************************************************************************)
(* The host's Date: a proleptic Gregorian calendar, local time.            *)
(***************************************************************************)
\* The local date of hour 0 of the model's clock: Monday 2024-12-30.
ModelEpoch == <<2024, 12, 30>>

IsLeap(y) == (y % 4 = 0 /\ y % 100 # 0) \/ y % 400 = 0

DaysInMonth(y, m) ==
    IF m = 2 THEN (IF IsLeap(y) THEN 29 ELSE 28)
    ELSE IF m \in {4, 6, 9, 11} THEN 30 ELSE 31

\* Date normalisation as done by setDate / the Date constructor: a day of
\* month past the month's end carries into the next month, a month past
\* December carries into the next year.
RECURSIVE NormalizeDate(_)
NormalizeDate(ymd) ==
    LET y == ymd[1]
        m == ymd[2]
        d == ymd[3]
    IN  IF m > 12 THEN NormalizeDate(<<y + 1, m - 12, d>>)
        ELSE IF d > DaysInMonth(y, m) THEN NormalizeDate(<<y, m + 1, d - DaysInMonth(y, m)>>)
        ELSE ymd

\* The calendar date n days after ModelEpoch.
RECURSIVE CivilFromDays(_)
CivilFromDays(n) ==
    IF n = 0 THEN ModelEpoch
    ELSE LET p == CivilFromDays(n - 1)
         IN  NormalizeDate(<<p[1], p[2], p[3] + 1>>)

Calendar == [n \in 0..Horizon |-> CivilFromDays(n)]

DaysFromCivil(ymd) == CHOOSE n \in 0..Horizon : Calendar[n] = ymd

\* new Date("YYYY-MM-DDTHH:00"): a date-time without offset is local time.
DateParse(iso) == DaysFromCivil(<<iso[1], iso[2], iso[3]>>) * 24 + iso[4]

\* getFullYear(), getMonth() + 1, getDate() of a Date.
LocalDate(t) == Calendar[t \div 24]

\* getHours() of a Date.
LocalHour(t) == t % 24

(***************************************************************************)
(* Strings as sequences of UTF-16 code units.                              *)
(***************************************************************************)
\* '0'
Zero == 48
\* '-'
Dash == 45

\* String(n) for a natural number n.
RECURSIVE NumStr(_)
NumStr(n) == IF n < 10 THEN <<Zero + n>> ELSE Append(NumStr(n \div 10), Zero + (n % 10))

\* s.padStart(2, '0')
PadStart2(s) == IF Len(s) < 2 THEN <<Zero>> \o s ELSE s

\* The template `${year}-${month}-${day}`.
DateTemplate(year, month, day) == year \o <<Dash>> \o month \o <<Dash>> \o day

\* JavaScript's a <= b on strings: code units compared left to right, a
\* proper prefix being the smaller.
RECURSIVE StrLeq(_, _)
StrLeq(a, b) ==
    IF a = <<>> THEN TRUE
    ELSE IF b = <<>> THEN FALSE
    ELSE IF Head(a) < Head(b) THEN TRUE
    ELSE IF Head(a) > Head(b) THEN FALSE
    ELSE StrLeq(Tail(a), Tail(b))

\* The forecast service's daily.time entry for a calendar date: "YYYY-MM-DD".
IsoDate(ymd) == DateTemplate(NumStr(ymd[1]), PadStart2(NumStr(ymd[2])), PadStart2(NumStr(ymd[3])))


IsoDays == [n \in 0..Horizon |-> IsoDate(Calendar[n])]

\* new Date("YYYY-MM-DD"): a date-only string is midnight UTC of that date;
\* the result is the day number of that UTC date.
DateParseDay(s) == CHOOSE n \in 0..Horizon : IsoDays[n] = s

WeekdayNames == <<"Monday", "Tuesday", "Wednesday", "Thursday", "Friday", "Saturday", "Sunday">>

\* toLocaleDateString('en-US', {weekday: 'long'}) of midnight UTC of day n, in
\* a browser whose zone is west of UTC (the instant falls on the previous
\* local day) or not.
WeekdayOf(n, west) == WeekdayNames[((n + 7 - (IF west THEN 1 ELSE 0)) % 7) + 1]

(***************************************************************************)
(* Formatting.                                                             *)
(***************************************************************************)
\* Math.round(num / den) for den > 0: the nearest integer, ties towards
\* positive infinity.
MathRound(num, den) == (2 * num + den) \div (2 * den)

\* formatTemp dropping the fraction instead of rounding.
formatTempFloors(celsius, isCelsius) ==
    IF isCelsius THEN celsius ELSE ((celsius * 9) \div 5) + 32

\* formatTemp, with the global isCelsius passed in.
formatTemp(celsius, isCelsius) ==
    IF NotANumber(celsius) THEN NaN
    ELSE IF isCelsius THEN MathRound(celsius, 1)
    ELSE MathRound(celsius * 9 + 32 * 5, 5)

\* The wind template: Math.round(kmh) km/h or Math.round(kmh * 0.621371) mph.
formatWind(kmh, isCelsius) ==
    IF NotANumber(kmh) THEN <<NaN, IF isCelsius THEN "km/h" ELSE "mph">>
    ELSE IF isCelsius THEN <<MathRound(kmh, 1), "km/h">>
    ELSE <<MathRound(kmh * 621371, 1000000), "mph">>

\* The visibility template: (m / 1000).toFixed(1) km or (m / 1609.34).toFixed(1) mi,
\* as <<integer part, tenth, unit>>.
formatVisibility(meters, isCelsius) ==
    LET tenths == IF isCelsius THEN MathRound(meters * 10, 1000)
                  ELSE MathRound(meters * 1000, 160934)
    IN  <<tenths \div 10, tenths % 10, IF isCelsius THEN "km" ELSE "mi">>

\* formatTimeISO: toLocaleTimeString([], {hour: '2-digit', minute: '2-digit'}).
formatTimeISO(iso) == <<LocalHour(DateParse(iso)), 0>>

\* toLocaleTimeString([], {hour: 'numeric', hour12: true}).
hourDisplay(iso) ==
    LET h == LocalHour(DateParse(iso))
    IN  <<IF h % 12 = 0 THEN 12 ELSE h % 12, IF h < 12 THEN "AM" ELSE "PM">>

\* The codes table of getWeatherDescription.
WmoCodes ==
    [c \in {0, 1, 2, 3, 45, 48, 51, 53, 55, 56, 57, 61, 63, 65, 66, 67, 71, 73, 75,
            77, 80, 81, 82, 85, 86, 95, 96, 99} |->
        CASE c = 0 -> "Clear sky"
          [] c = 1 -> "Mainly clear"
          [] c = 2 -> "Partly cloudy"
          [] c = 3 -> "Overcast"
          [] c = 45 -> "Fog"
          [] c = 48 -> "Depositing rime fog"
          [] c = 51 -> "Light drizzle"
          [] c = 53 -> "Moderate drizzle"
          [] c = 55 -> "Dense drizzle"
          [] c = 56 -> "Light freezing drizzle"
          [] c = 57 -> "Dense freezing drizzle"
          [] c = 61 -> "Slight rain"
          [] c = 63 -> "Moderate rain"
          [] c = 65 -> "Heavy rain"
          [] c = 66 -> "Light freezing rain"
          [] c = 67 -> "Heavy freezing rain"
          [] c = 71 -> "Slight snow fall"
          [] c = 73 -> "Moderate snow fall"
          [] c = 75 -> "Heavy snow fall"
          [] c = 77 -> "Snow grains"
          [] c = 80 -> "Slight rain showers"
          [] c = 81 -> "Moderate rain showers"
          [] c = 82 -> "Violent rain showers"
          [] c = 85 -> "Slight snow showers"
          [] c = 86 -> "Heavy snow showers"
          [] c = 95 -> "Thunderstorm"
          [] c = 96 -> "Thunderstorm with slight hail"
          [] c = 99 -> "Thunderstorm with heavy hail"]

getWeatherDescription(code) ==
    IF code \in DOMAIN WmoCodes THEN WmoCodes[code] ELSE "Unknown"

\* mapWmoToOwmIcon with the rain showers 80-82 sent to the default.
mapWmoToOwmIconNoShowers(wmoCode, isDay) ==
    LET day == IF isDay # 0 THEN "d" ELSE "n"
    IN  IF wmoCode = 0 THEN <<"01", day>>
        ELSE IF wmoCode = 1 THEN <<"02", day>>
        ELSE IF wmoCode = 2 THEN <<"03", day>>
        ELSE IF wmoCode = 3 THEN <<"04", day>>
        ELSE IF wmoCode \in {45, 48} THEN <<"50", day>>
        ELSE IF wmoCode \in {51, 53, 55, 56, 57, 61, 63, 65, 66, 67} THEN <<"10", day>>
        ELSE IF wmoCode \in {71, 73, 75, 77, 85, 86} THEN <<"13", day>>
        ELSE IF wmoCode \in {95, 96, 99} THEN <<"11", day>>
        ELSE <<"03", day>>

\* mapWmoToOwmIcon; isDay is 1 / 0 as the service sends it, the icon is
\* <<two-digit code, "d" or "n">>.
mapWmoToOwmIcon(wmoCode, isDay) ==
    LET day == IF Truthy(isDay) THEN "d" ELSE "n"
    IN  IF wmoCode = 0 THEN <<"01", day>>
        ELSE IF wmoCode = 1 THEN <<"02", day>>
        ELSE IF wmoCode = 2 THEN <<"03", day>>
        ELSE IF wmoCode = 3 THEN <<"04", day>>
        ELSE IF wmoCode \in {45, 48} THEN <<"50", day>>
        ELSE IF wmoCode \in {51, 53, 55, 56, 57, 61, 63, 65, 66, 67, 80, 81, 82} THEN <<"10", day>>
        ELSE IF wmoCode \in {71, 73, 75, 77, 85, 86} THEN <<"13", day>>
        ELSE IF wmoCode \in {95, 96, 99} THEN <<"11", day>>
        ELSE <<"03", day>>

(***************************************************************************)
(* The page: the elements the script shows, hides and fills.               *)
(*                                                                         *)
(* dom.view holds the text painted into the weather-data panel: each       *)
(* single field is None until updateUI first writes it, the two lists are  *)
(* the children of hourly-list and forecast-list.                          *)
(***************************************************************************)
BlankView ==
    [locationName |-> None, temperature |-> None, highLow |-> None,
     description |-> None, icon |-> None, sunrise |-> None, sunset |-> None,
     dayNight |-> None, humidity |-> None, wind |-> None, feelsLike |-> None,
     rainChance |-> None, visibility |-> None, uvIndex |-> None,
     hourlyList |-> <<>>, forecastList |-> <<>>]

showLoading(d) == [d EXCEPT !.loadingHidden = FALSE, !.welcomeHidden = TRUE]

hideLoading(d) == [d EXCEPT !.loadingHidden = TRUE]

showError(d, message) ==
    hideLoading([d EXCEPT !.errorText = message, !.errorHidden = FALSE])

hideError(d) == [d EXCEPT !.errorHidden = TRUE]

\* weatherDataEl.classList.add('hidden')
hideData(d) == [d EXCEPT !.dataHidden = TRUE]

(***************************************************************************)
(* renderHourlyForecast.                                                   *)
(***************************************************************************)
\* The first loop without its break: startIndex ends as the last i with
\* time[i] >= now.
hourlyStartFromNoBreak(time, nowv, i) ==
    LET later == {j \in i..(Len(time) - 1) : DateParse(At(time, j)) >= nowv}
    IN  IF later = {} THEN 0 ELSE CHOOSE j \in later : \A k \in later : k <= j

\* The first loop: startIndex stays 0 unless some time[i] >= now, and the
\* loop breaks at the first such i.
RECURSIVE hourlyStartFrom(_, _, _)
hourlyStartFrom(time, nowv, i) ==
    IF i < Len(time)
    THEN IF DateParse(At(time, i)) >= nowv THEN i
         ELSE hourlyStartFrom(time, nowv, i + 1)
    ELSE 0

hourlyStartIndex(time, nowv) == hourlyStartFrom(time, nowv, 0)

\* One child of hourly-list.
hourlyItem(hourly, i, isCelsius) ==
    [time |-> hourDisplay(At(hourly.time, i)),
     icon |-> mapWmoToOwmIcon(At(hourly.weather_code, i), At(hourly.is_day, i)),
     temp |-> formatTemp(At(hourly.temperature_2m, i), isCelsius)]

\* The second loop: for (i = startIndex; i < length && count < 8; i += 3).
RECURSIVE hourlyLoop(_, _, _, _, _)
hourlyLoop(hourly, isCelsius, i, count, list) ==
    IF i < Len(hourly.time) /\ count < 8
    THEN hourlyLoop(hourly, isCelsius, i + 3, count + 1,
                    Append(list, hourlyItem(hourly, i, isCelsius)))
    ELSE list

renderHourlyForecast(hourly, isCelsius, nowv) ==
    hourlyLoop(hourly, isCelsius, hourlyStartIndex(hourly.time, nowv), 0, <<>>)

(***************************************************************************)
(* renderForecast.                                                         *)
(***************************************************************************)
\* tomorrowStr built from getDate() + 1 without setDate's carry into the
\* next month.
cutoffStrNoCarry(nowv, revision) ==
    LET today == LocalDate(nowv)
    IN  DateTemplate(NumStr(today[1]), PadStart2(NumStr(today[2])),
                     PadStart2(NumStr(today[3] + 1)))

\* The cutoff of script.js, todayStr, in both revisions.
cutoffStrToday(nowv, revision) ==
    LET today == LocalDate(nowv)
    IN  DateTemplate(NumStr(today[1]), PadStart2(NumStr(today[2])),
                     PadStart2(NumStr(today[3])))

\* The date string the loop compares against: tomorrowStr in part_000 (now
\* with setDate(getDate() + 1)), todayStr in script.js.
cutoffStr(nowv, revision) ==
    LET today == LocalDate(nowv)
        c == IF revision = "part000"
             THEN NormalizeDate(<<today[1], today[2], today[3] + 1>>)
             ELSE today
    IN  DateTemplate(NumStr(c[1]), PadStart2(NumStr(c[2])), PadStart2(NumStr(c[3])))

\* One child of forecast-list, the rain chance read without a default.
forecastItemNoRainDefault(daily, i, isCelsius, west) ==
    [dayName |-> WeekdayOf(DateParseDay(At(The(daily.time), i)), west),
     icon |-> mapWmoToOwmIcon(At(daily.weather_code, i), 1),
     maxTemp |-> formatTemp(At(daily.temperature_2m_max, i), isCelsius),
     minTemp |-> formatTemp(At(daily.temperature_2m_min, i), isCelsius),
     rain |-> IF Has(daily.precipitation_probability_max)
              THEN At(The(daily.precipitation_probability_max), i) ELSE Undefined,
     wind |-> formatWind(IF Has(daily.wind_speed_10m_max)
                         THEN At(The(daily.wind_speed_10m_max), i) ELSE 0, isCelsius),
     sunrise |-> IF Has(daily.sunrise)
                 THEN Some(formatTimeISO(At(The(daily.sunrise), i))) ELSE None,
     sunset |-> IF Has(daily.sunset)
                THEN Some(formatTimeISO(At(The(daily.sunset), i))) ELSE None]

\* One child of forecast-list.
forecastItem(daily, i, isCelsius, west) ==
    [dayName |-> WeekdayOf(DateParseDay(At(The(daily.time), i)), west),
     icon |-> mapWmoToOwmIcon(At(daily.weather_code, i), 1),
     maxTemp |-> formatTemp(At(daily.temperature_2m_max, i), isCelsius),
     minTemp |-> formatTemp(At(daily.temperature_2m_min, i), isCelsius),
     rain |-> IF Has(daily.precipitation_probability_max)
              THEN At(The(daily.precipitation_probability_max), i) ELSE 0,
     wind |-> formatWind(IF Has(daily.wind_speed_10m_max)
                         THEN At(The(daily.wind_speed_10m_max), i) ELSE 0, isCelsius),
     sunrise |-> IF Has(daily.sunrise)
                 THEN Some(formatTimeISO(At(The(daily.sunrise), i))) ELSE None,
     sunset |-> IF Has(daily.sunset)
                THEN Some(formatTimeISO(At(The(daily.sunset), i))) ELSE None]

\* The loop over daily.time: continue while dateStr <= cutoff, break once 5
\* entries are in the list.
RECURSIVE forecastLoop(_, _, _, _, _, _, _)
forecastLoop(daily, cutoff, isCelsius, west, i, count, list) ==
    IF i < Len(The(daily.time))
    THEN IF StrLeq(At(The(daily.time), i), cutoff)
         THEN forecastLoop(daily, cutoff, isCelsius, west, i + 1, count, list)
         ELSE IF count >= 5 THEN list
         ELSE forecastLoop(daily, cutoff, isCelsius, west, i + 1, count + 1,
                           Append(list, forecastItem(daily, i, isCelsius, west)))
    ELSE list

renderForecast(daily, isCelsius, nowv, revision, west) ==
    IF ~Has(daily.time) THEN <<>>
    ELSE forecastLoop(daily, cutoffStr(nowv, revision), isCelsius, west, 0, 0, <<>>)

(***************************************************************************)
(* updateUI.                                                               *)
(***************************************************************************)
\* The view once every statement of updateUI has run.  A sunrise or sunset
\* of None inside Some(...) stands for the text '--:--'.
paintView(data, locationName, isCelsius, nowv, revision, west) ==
    LET current == The(data.current)
        daily == The(data.daily)
        hourly == The(data.hourly)
        p0 == revision = "part000"
    IN  [locationName |-> Some(locationName),
         temperature |-> Some(<<formatTemp(current.temperature_2m, isCelsius),
                                IF isCelsius THEN "C" ELSE "F">>),
         highLow |-> Some(<<formatTemp(At(daily.temperature_2m_max, 0), isCelsius),
                            formatTemp(At(daily.temperature_2m_min, 0), isCelsius)>>),
         description |-> Some(getWeatherDescription(current.weather_code)),
         icon |-> Some(mapWmoToOwmIcon(current.weather_code, current.is_day)),
         sunrise |-> Some(IF Has(daily.sunrise)
                          THEN Some(formatTimeISO(At(The(daily.sunrise), 0))) ELSE None),
         sunset |-> Some(IF Has(daily.sunset)
                         THEN Some(formatTimeISO(At(The(daily.sunset), 0))) ELSE None),
         dayNight |-> IF p0 THEN Some(IF Truthy(current.is_day) THEN "Day" ELSE "Night")
                      ELSE None,
         humidity |-> Some(current.relative_humidity_2m),
         wind |-> Some(formatWind(current.wind_speed_10m, isCelsius)),
         feelsLike |-> Some(formatTemp(current.apparent_temperature, isCelsius)),
         rainChance |-> Some(IF Has(daily.precipitation_probability_max)
                             THEN At(The(daily.precipitation_probability_max), 0) ELSE 0),
         visibility |-> IF p0 THEN Some(formatVisibility(current.visibility, isCelsius))
                        ELSE None,
         uvIndex |-> Some(IF Has(daily.uv_index_max)
                          THEN At(The(daily.uv_index_max), 0) ELSE 0),
         hourlyList |-> renderHourlyForecast(hourly, isCelsius, nowv),
         forecastList |-> renderForecast(daily, isCelsius, nowv, revision, west)]

\* updateUI without its check of the three sections: location-name is
\* written, then reading a field of the missing section throws.
updateUIUnguarded(d, data, locationName, isCelsius, nowv, revision, west) ==
    IF ~Has(data.current) \/ ~Has(data.daily) \/ ~Has(data.hourly)
    THEN [d EXCEPT !.view.locationName = Some(locationName)]
    ELSE [d EXCEPT !.view = paintView(data, locationName, isCelsius, nowv, revision, west),
                   !.dataHidden = FALSE]

\* updateUI(data, locationName) applied to the page d: nothing happens when
\* a section is missing, otherwise every field is written and the panel is
\* shown.
updateUI(d, data, locationName, isCelsius, nowv, revision, west) ==
    IF ~Has(data.current) \/ ~Has(data.daily) \/ ~Has(data.hourly)
    THEN d
    ELSE [d EXCEPT !.view = paintView(data, locationName, isCelsius, nowv, revision, west),
                   !.dataHidden = FALSE]

(***************************************************************************)
(* What the external services answer.                                      *)
(***************************************************************************)
\* An ISO local date-time for an hour of the model's clock.
IsoOfHour(t) == Calendar[t \div 24] \o <<t % 24>>

CodeCycle == <<0, 1, 2, 3, 45, 61, 71, 95, 100>>

\* An hourly section whose time array holds the hours ts (ascending); the
\* temperatures differ from index to index.
hourlyOf(ts) ==
    [time |-> [k \in 1..Len(ts) |-> IsoOfHour(ts[k])],
     temperature_2m |-> [k \in 1..Len(ts) |-> k - 6],
     weather_code |-> [k \in 1..Len(ts) |-> CodeCycle[(k % 9) + 1]],
     is_day |-> [k \in 1..Len(ts) |-> IF LocalHour(ts[k]) \in 6..17 THEN 1 ELSE 0]]

\* n consecutive hours from hour t0.
hourRun(t0, n) == [k \in 1..n |-> t0 + k - 1]

\* A daily section of n consecutive dates from day d0, with or without the
\* optional arrays.
dailyOf(d0, n, optional) ==
    LET opt(arr) == IF optional THEN Some(arr) ELSE None
    IN  [time |-> Some([k \in 1..n |-> IsoDays[d0 + k - 1]]),
         temperature_2m_max |-> [k \in 1..n |-> 10 + k],
         temperature_2m_min |-> [k \in 1..n |-> k - 4],
         weather_code |-> [k \in 1..n |-> CodeCycle[((k + 3) % 9) + 1]],
         sunrise |-> opt([k \in 1..n |-> Calendar[d0 + k - 1] \o <<6 + (k % 2)>>]),
         sunset |-> opt([k \in 1..n |-> Calendar[d0 + k - 1] \o <<17 + (k % 3)>>]),
         precipitation_probability_max |-> opt([k \in 1..n |-> (k * 15) % 100]),
         wind_speed_10m_max |-> opt([k \in 1..n |-> 4 + 3 * k]),
         uv_index_max |-> opt([k \in 1..n |-> k % 8])]

currentOf(temp, code, isDay) ==
    [temperature_2m |-> temp, weather_code |-> code, is_day |-> isDay,
     relative_humidity_2m |-> 55, apparent_temperature |-> temp - 2,
     wind_speed_10m |-> 12, visibility |-> 24140]

\* A payload with all three sections.
payloadOf(cur, hourly, daily) ==
    [current |-> Some(cur), hourly |-> Some(hourly), daily |-> Some(daily)]

\* The JSON bodies the forecast service may answer with in the "script" runs:
\* two complete ones and one without its daily section.  The script holds
\* a payload by reference: a reference is an index into this table.
ScriptPayloads ==
    <<payloadOf(currentOf(20, 0, 1), hourlyOf(hourRun(24, 6)), dailyOf(1, 6, TRUE)),
      payloadOf(currentOf(-3, 71, 0), hourlyOf(hourRun(30, 4)), dailyOf(0, 6, TRUE)),
      [current |-> Some(currentOf(20, 0, 1)), hourly |-> Some(hourlyOf(hourRun(24, 6))),
       daily |-> None]>>

\* All ascending sequences over a set of hours.
RECURSIVE AscendingOver(_)
AscendingOver(S) ==
    IF S = {} THEN {<<>>}
    ELSE LET top == CHOOSE x \in S : \A y \in S : y <= x
             rest == AscendingOver(S \ {top})
         IN  rest \cup {Append(q, top) : q \in rest}

\* The payloads of the "part000" runs: hourly arrays with gaps, hourly runs
\* of up to 26 hours, daily arrays of 0 to 9 dates starting yesterday, today,
\* tomorrow or later, with and without the optional arrays, and payloads
\* lacking a section.
RenderPayloads ==
    {payloadOf(currentOf(20, 0, 1), hourlyOf(ts), dailyOf(1, 8, TRUE)) :
        ts \in AscendingOver({30, 33, 34, 40})}
    \cup {payloadOf(currentOf(20, 0, 1), hourlyOf(hourRun(t0, n)), dailyOf(1, 8, TRUE)) :
            t0 \in {24, 35}, n \in {22, 24, 25, 26}}
    \cup {payloadOf(currentOf(7, 95, 0), hourlyOf(hourRun(24, 5)), dailyOf(d0, n, opt)) :
            d0 \in 0..3, n \in {1, 3, 7, 8, 9}, opt \in {TRUE}}
    \cup {payloadOf(currentOf(7, 95, 0), hourlyOf(hourRun(24, 5)), dailyOf(1, 8, FALSE))}
    \cup {[current |-> Some(currentOf(20, 0, 1)), hourly |-> None,
           daily |-> Some(dailyOf(1, 8, TRUE))]}

RenderTable ==
    LET S == RenderPayloads
        RECURSIVE list(_)
        list(T) == IF T = {} THEN <<>>
                   ELSE LET x == CHOOSE y \in T : TRUE IN <<x>> \o list(T \ {x})
    IN  list(S)

\* The first n elements of an array.
Prefix(arr, n) == SubSeq(arr, 1, n)

\* Payloads whose parallel arrays differ in length: hourly temperatures,
\* hourly codes and day flags, daily maxima, daily optional wind maxima
\* shorter than the time array.
RaggedPayloads ==
    LET cur == currentOf(20, 0, 1)
        h == hourlyOf(hourRun(24, 24))
        d == dailyOf(1, 8, TRUE)
    IN  <<payloadOf(cur, [h EXCEPT !.temperature_2m = Prefix(@, 10)], d),
          payloadOf(cur, [h EXCEPT !.weather_code = Prefix(@, 4), !.is_day = Prefix(@, 7)], d),
          payloadOf(cur, h, [d EXCEPT !.temperature_2m_max = Prefix(@, 3)]),
          payloadOf(cur, h, [d EXCEPT !.wind_speed_10m_max = Some(Prefix(The(@), 4)),
                                      !.temperature_2m_min = Prefix(@, 5)])>>

\* Every payload a "part000" run may be served.
FeedTable == RenderTable \o RaggedPayloads

\* The table of JSON bodies of a run: env.feed = 0 is the "script" table, any
\* other value selects the one payload the "part000" run is served.
Payloads(e) == IF e.feed = 0 THEN ScriptPayloads ELSE <<FeedTable[e.feed]>>

\* The values of now of the "part000" runs: 2024-12-30 20:00, 2024-12-31
\* 10:00, 2024-12-31 23:00 and 2025-01-01 10:00.
RenderNows == {20, 34, 47, 58}

\* Results of the place search: display_name is modelled split at its commas.
Places ==
    {[lat |-> 48, lon |-> 2, display_name |-> <<"Paris", "Ile-de-France", "France">>]}

\* Answers of the reverse-geocoding service: the fetch throws, the response
\* is not OK, or it carries an address.
NoAddress == [city |-> None, town |-> None, village |-> None, suburb |-> None, county |-> None]

ReverseAnswers ==
    {[kind |-> "threw", address |-> NoAddress],
     [kind |-> "notOk", address |-> NoAddress],
     [kind |-> "ok", address |-> [NoAddress EXCEPT !.town = Some("Oslo")]],
     [kind |-> "ok", address |-> NoAddress]}

\* The answers tried in a run: all four in the "part000" runs, a failing and
\* a naming one in the "script" runs, where up to MaxReq requests interleave.
ReverseAnswersOf(e) ==
    IF e.feed = 0 THEN {a \in ReverseAnswers : a.kind = "threw" \/ Has(a.address.town)}
    ELSE ReverseAnswers

\* The message of the error a rejected fetch() carries.
TransportMessage == "Failed to fetch"

(***************************************************************************)
(* State.                                                                  *)
(***************************************************************************)
VARIABLES
    env,                  \* the browser and the forecast feed: fixed during a run
    now,                  \* new Date(), fixed during a run
    isCelsius,            \* let isCelsius
    currentWeatherData,   \* let currentWeatherData: None is null, Some(i) refers
                          \* to the payload Payloads(env)[i]
    currentLocationName,  \* let currentLocationName
    dom,                  \* the page
    reqs,                 \* the requests started so far, in the order started
    last,                 \* observer: the request that settled last, and how
    hist,                 \* observer: the unit and view before each of the
                          \* latest (at most two) consecutive unit toggles
    currentAlertsData,    \* currentAlertsData (part_000, assigned in handleSearch)
    call                  \* observer: the latest application of a formatting
                          \* function on its own, with its arguments and result

vars == <<env, now, isCelsius, currentWeatherData, currentLocationName, dom, reqs, last, hist,
          currentAlertsData, call>>

\* No formatting function has been applied on its own.
NoCall == [fn |-> "", arg |-> <<>>, result |-> <<>>]

\* A request: one call of handleSearch ("search") or of initApp ("geo").
\*   pc        "geocoding" (search: fetchCoordinates pending), "locating"
\*             (geo: getCurrentPosition pending), "fetching" (the forecast,
\*             and for geo the reverse geocode, awaited), "done" (settled);
\*   forecast  the fetchWeatherData call: "none" (not made), "pending",
\*             "ok" or "failed";
\*   reverse   the fetchLocationName call: "none", "pending" or "done";
\*   coords    the result of fetchCoordinates, while the request is live;
\*   data      the payload (a reference) fetchWeatherData returned, while
\*             the request is live;
\*   name      the display name, while the request is live: coords.name, or
\*             what fetchLocationName returned;
\*   reverseAnswer  observer: what the reverse-geocoding service answered.
NewReq(kind, pc) ==
    [kind |-> kind, pc |-> pc, forecast |-> "none", reverse |-> "none",
     coords |-> None, data |-> None, name |-> None, reverseAnswer |-> None]

\* A settlement that sends the forecast request again after it failed.
settleRetries(req, forecast) ==
    IF forecast = "failed" THEN [req EXCEPT !.forecast = "pending"]
    ELSE [req EXCEPT !.pc = "done", !.forecast = forecast, !.coords = None,
                     !.data = None, !.name = None]

\* A request once settled: its locals are gone.
settle(req, forecast) ==
    [req EXCEPT !.pc = "done", !.forecast = forecast, !.coords = None,
                !.data = None, !.name = None]

\* The observer's record of a settlement: the request, the service answer
\* that settled it (cause), and the payload and name it ended with.
Settlement(r, cause, data, name) ==
    [req |-> r, cause |-> cause, data |-> data, name |-> name]

NoSettlement == Settlement(0, "", None, None)

\* The page as the markup delivers it: only the welcome message is shown.
InitialDom ==
    [loadingHidden |-> TRUE, welcomeHidden |-> FALSE, errorHidden |-> TRUE,
     errorText |-> "", dataHidden |-> TRUE, view |-> BlankView,
     advisoryHidden |-> TRUE, advisories |-> <<>>]

\* script.js after DOMContentLoaded: listeners set, nothing fetched.
Init ==
    /\ env \in [revision : {"script"}, geolocation : BOOLEAN, west : {FALSE},
                feed : {0}]
    /\ now = 34
    /\ isCelsius = FALSE
    /\ currentWeatherData = None
    /\ currentLocationName = ""
    /\ dom = InitialDom
    /\ reqs = <<>>
    /\ last = NoSettlement
    /\ hist = <<>>
    /\ currentAlertsData = None
    /\ call = NoCall

(***************************************************************************)
(* initApp.                                                                *)
(***************************************************************************)
\* The synchronous part of initApp on page d.
initAppPage(d, geolocation) ==
    LET d1 == hideData(hideError(showLoading(d)))
    IN  IF ~geolocation
        THEN showError(d1, "Geolocation is not supported by your browser.")
        ELSE d1

\* The requests once initApp has run: getCurrentPosition is called unless
\* the browser has no geolocation.
initAppReqs(rs, geolocation) ==
    IF geolocation THEN Append(rs, NewReq("geo", "locating")) ELSE rs

\* The refresh button, the current-location button.
InitApp ==
    /\ Len(reqs) < MaxReq
    /\ dom' = initAppPage(dom, env.geolocation)
    /\ reqs' = initAppReqs(reqs, env.geolocation)
    /\ UNCHANGED <<env, now, isCelsius, currentWeatherData, currentLocationName, last>>

\* An error callback that shows the same message for every code.
positionErrorMessageGeneric(code) == "Unable to retrieve your location."

\* The message of the error callback of getCurrentPosition; code 1 is
\* error.PERMISSION_DENIED.
positionErrorMessage(code) ==
    IF code = 1 THEN "Location permission denied. Please enable location access."
    ELSE "Unable to retrieve your location."

\* getCurrentPosition fails: the error callback.
PositionError(r) ==
    /\ reqs[r].pc = "locating"
    /\ \E code \in {1, 2, 3} :
          /\ dom' = showError(dom, positionErrorMessage(code))
          /\ last' = Settlement(r, IF code = 1 THEN "position:denied" ELSE "position:other",
                                None, None)
    /\ reqs' = [reqs EXCEPT ![r] = settle(@, "none")]
    /\ UNCHANGED <<env, now, isCelsius, currentWeatherData, currentLocationName>>

\* The success callback awaiting fetchWeatherData before it would call
\* fetchLocationName: only the forecast request is sent.
PositionOKForecastFirst(r) ==
    /\ reqs[r].pc = "locating"
    /\ reqs' = [reqs EXCEPT ![r].pc = "fetching", ![r].forecast = "pending"]
    /\ UNCHANGED <<env, now, isCelsius, currentWeatherData, currentLocationName, dom, last>>

\* getCurrentPosition succeeds: Promise.all([fetchWeatherData(..),
\* fetchLocationName(..)]) calls both, which sends both requests.
PositionOK(r) ==
    /\ reqs[r].pc = "locating"
    /\ reqs' = [reqs EXCEPT ![r].pc = "fetching", ![r].forecast = "pending",
                            ![r].reverse = "pending"]
    /\ UNCHANGED <<env, now, isCelsius, currentWeatherData, currentLocationName, dom, last>>

\* fetchLocationName without the final || 'Your Location': an address with
\* none of the five fields gives undefined.
fetchLocationNameNoDefault(answer) ==
    LET addr == answer.address
    IN  IF answer.kind = "threw" THEN "Your Location"
        ELSE IF answer.kind = "notOk" THEN "Unknown Location"
        ELSE IF Has(addr.city) THEN The(addr.city)
        ELSE IF Has(addr.town) THEN The(addr.town)
        ELSE IF Has(addr.village) THEN The(addr.village)
        ELSE IF Has(addr.suburb) THEN The(addr.suburb)
        ELSE IF Has(addr.county) THEN The(addr.county)
        ELSE "undefined"

\* fetchLocationName on an answer of the reverse-geocoding service.
fetchLocationName(answer) ==
    LET addr == answer.address
    IN  IF answer.kind = "threw" THEN "Your Location"
        ELSE IF answer.kind = "notOk" THEN "Unknown Location"
        ELSE IF Has(addr.city) THEN The(addr.city)
        ELSE IF Has(addr.town) THEN The(addr.town)
        ELSE IF Has(addr.village) THEN The(addr.village)
        ELSE IF Has(addr.suburb) THEN The(addr.suburb)
        ELSE IF Has(addr.county) THEN The(addr.county)
        ELSE "Your Location"

\* updateUI(weatherData, name) followed by the finally's hideLoading, on
\* the payload the reference weatherData stands for.
renderAndSettle(d, weatherData, name, celsius, nowv, e) ==
    hideLoading(updateUI(d, Payloads(e)[weatherData], name, celsius, nowv,
                         e.revision, e.west))

\* An assignment that keeps a payload already retained.
retainedDataKeepsFirst(weatherData, old) == IF Has(old) THEN old ELSE Some(weatherData)

\* An assignment of the name that is left out.
retainedNameDropped(name, old) == old

\* currentWeatherData = weatherData
retainedData(weatherData, old) == Some(weatherData)

\* currentLocationName = name
retainedName(name, old) == name

\* error.message || fallback
orDefault(message, fallback) == IF message = "" THEN fallback ELSE message

\* The catch and the finally of a request: showError, then hideLoading.
failPage(d, message) == hideLoading(showError(d, message))

\* Promise.all([forecast, name]).then: the callback runs once both have
\* fulfilled.
bothSettled(forecast, reverse) == forecast = "ok" /\ reverse = "done"

\* The reverse geocode of a current-location request answers.  It never
\* rejects; once the forecast has failed its result is dropped.
NameAnswer(r) ==
    /\ reqs[r].reverse = "pending"
    /\ \E answer \in ReverseAnswersOf(env) :
          LET name == fetchLocationName(answer)
              live == reqs[r].pc = "fetching"
              go == live /\ bothSettled(reqs[r].forecast, "done")
          IN  IF go
              THEN /\ reqs' = [reqs EXCEPT ![r] = [settle(@, "ok") EXCEPT
                                                       !.reverse = "done",
                                                       !.reverseAnswer = Some(answer)]]
                   /\ currentWeatherData' = retainedData(The(reqs[r].data), currentWeatherData)
                   /\ currentLocationName' = retainedName(name, currentLocationName)
                   /\ dom' = renderAndSettle(dom, The(reqs[r].data), name, isCelsius, now, env)
                   /\ last' = Settlement(r, "ok", reqs[r].data, Some(name))
              ELSE /\ reqs' = [reqs EXCEPT ![r].reverse = "done",
                                           ![r].reverseAnswer = Some(answer),
                                           ![r].name = IF live THEN Some(name) ELSE @]
                   /\ UNCHANGED <<currentWeatherData, currentLocationName, dom, last>>
    /\ UNCHANGED <<env, now, isCelsius>>

(***************************************************************************)
(* fetchWeatherData and what awaits it.                                    *)
(***************************************************************************)
\* Answers of the forecast service: the fetch rejects, the response is not
\* OK, or it is OK with one of the JSON bodies.
ForecastAnswers(payloads) ==
    {[kind |-> "threw", body |-> None], [kind |-> "notOk", body |-> None]}
    \cup {[kind |-> "ok", body |-> Some(i)] : i \in DOMAIN payloads}

\* fetchWeatherData on an answer: a rejected fetch and a non-OK response
\* throw, an OK response gives its JSON body.
fetchWeatherData(answer) ==
    IF answer.kind = "threw" THEN [threw |-> TRUE, message |-> TransportMessage, data |-> None]
    ELSE IF answer.kind = "notOk"
    THEN [threw |-> TRUE, message |-> "Weather API not available.", data |-> None]
    ELSE [threw |-> FALSE, message |-> "", data |-> answer.body]

\* A catch that shows its fallback whatever was thrown.
caughtMessageFallbackOnly(kind, message) == "Failed to fetch data."

\* The message the caller's catch shows: handleSearch shows error.message,
\* initApp error.message || 'Failed to fetch data.'.
caughtMessage(kind, message) ==
    IF kind = "geo" THEN orDefault(message, "Failed to fetch data.") ELSE message

\* The forecast of request r answers.
WeatherAnswer(r) ==
    /\ reqs[r].forecast = "pending"
    /\ \E answer \in ForecastAnswers(Payloads(env)) :
          LET res == fetchWeatherData(answer)
              go == reqs[r].kind = "search" \/ bothSettled("ok", reqs[r].reverse)
          IN  IF res.threw
              THEN /\ reqs' = [reqs EXCEPT ![r] = settle(@, "failed")]
                   /\ dom' = failPage(dom, caughtMessage(reqs[r].kind, res.message))
                   /\ last' = Settlement(r, "forecast:" \o answer.kind, None, None)
                   /\ UNCHANGED <<currentWeatherData, currentLocationName>>
              ELSE IF go
              THEN /\ reqs' = [reqs EXCEPT ![r] = settle(@, "ok")]
                   /\ currentWeatherData' = retainedData(The(res.data), currentWeatherData)
                   /\ currentLocationName' = retainedName(The(reqs[r].name), currentLocationName)
                   /\ dom' = renderAndSettle(dom, The(res.data), The(reqs[r].name),
                                             isCelsius, now, env)
                   /\ last' = Settlement(r, "ok", res.data, reqs[r].name)
              ELSE /\ reqs' = [reqs EXCEPT ![r].forecast = "ok", ![r].data = res.data]
                   /\ UNCHANGED <<currentWeatherData, currentLocationName, dom, last>>
    /\ UNCHANGED <<env, now, isCelsius>>

(***************************************************************************)
(* handleSearch and fetchCoordinates (script.js only: part_000 defines     *)
(* handleSearch but nothing calls it).                                     *)
(***************************************************************************)
\* The search button or Enter, with the trimmed text of the input.
HandleSearch ==
    /\ Len(reqs) < MaxReq
    /\ \E query \in {"", "somewhere"} :
          IF query = ""
          THEN UNCHANGED <<dom, reqs>>
          ELSE /\ dom' = hideData(hideError(showLoading(dom)))
               /\ reqs' = Append(reqs, NewReq("search", "geocoding"))
    /\ UNCHANGED <<env, now, isCelsius, currentWeatherData, currentLocationName, last>>

\* Answers of the place-search service.
SearchAnswers(places) ==
    {[kind |-> "threw", list |-> <<>>], [kind |-> "notOk", list |-> <<>>],
     [kind |-> "ok", list |-> <<>>]}
    \cup {[kind |-> "ok", list |-> <<p>>] : p \in places}

\* fetchCoordinates on an answer: a rejected fetch and a non-OK response
\* throw, an empty list gives null, otherwise the first result with the
\* first comma-separated part of its display_name.
fetchCoordinates(answer) ==
    IF answer.kind = "threw" THEN [threw |-> TRUE, message |-> TransportMessage, coords |-> None]
    ELSE IF answer.kind = "notOk"
    THEN [threw |-> TRUE, message |-> "Geocoding service unavailable.", coords |-> None]
    ELSE IF Len(answer.list) = 0 THEN [threw |-> FALSE, message |-> "", coords |-> None]
    ELSE LET result == answer.list[1]
         IN  [threw |-> FALSE, message |-> "",
              coords |-> Some([lat |-> result.lat, lon |-> result.lon,
                               name |-> Head(result.display_name)])]

\* handleSearch without its check of a null result: destructuring null
\* throws a TypeError, whose message the catch shows.
searchFailureUnchecked(got) ==
    IF got.threw THEN Some(got.message)
    ELSE IF ~Has(got.coords)
    THEN Some("Cannot destructure property 'lat' of 'coords' as it is null.")
    ELSE None

\* What handleSearch does when fetchCoordinates has settled: the message it
\* throws to its catch, or None when it goes on to fetchWeatherData.
searchFailure(got) ==
    IF got.threw THEN Some(got.message)
    ELSE IF ~Has(got.coords) THEN Some("Location not found. Please try again.")
    ELSE None

\* The place search of request r answers.
GeocodeAnswer(r) ==
    /\ reqs[r].pc = "geocoding"
    /\ \E answer \in SearchAnswers(Places) :
          LET got == fetchCoordinates(answer)
              failure == searchFailure(got)
          IN  IF Has(failure)
              THEN /\ reqs' = [reqs EXCEPT ![r] = settle(@, "none")]
                   /\ dom' = failPage(dom, The(failure))
                   /\ last' = Settlement(r, IF answer.kind = "ok" THEN "geocode:empty"
                                            ELSE "geocode:" \o answer.kind, None, None)
              ELSE /\ reqs' = [reqs EXCEPT ![r].pc = "fetching", ![r].forecast = "pending",
                                           ![r].coords = got.coords,
                                           ![r].name = Some(The(got.coords).name)]
                   /\ UNCHANGED <<dom, last>>
    /\ UNCHANGED <<env, now, isCelsius, currentWeatherData, currentLocationName>>

(***************************************************************************)
(* toggleUnit.                                                             *)
(***************************************************************************)
\* A toggle that always selects Celsius.
flipUnitStuck(celsius) == TRUE

\* isCelsius = !isCelsius
flipUnit(celsius) == ~celsius

ToggleUnit ==
    /\ isCelsius' = flipUnit(isCelsius)
    /\ dom' = IF Has(currentWeatherData)
              THEN updateUI(dom, Payloads(env)[The(currentWeatherData)], currentLocationName,
                            isCelsius', now, env.revision, env.west)
              ELSE dom
    /\ UNCHANGED <<env, now, currentWeatherData, currentLocationName, reqs, last>>

(***************************************************************************)
(* The specifications.                                                     *)
(***************************************************************************)
\* script.js: any interleaving of the user's clicks and the services'
\* answers.
Next ==
    \/ HandleSearch /\ UNCHANGED <<hist, currentAlertsData, call>>
    \/ InitApp /\ UNCHANGED <<hist, currentAlertsData, call>>
    \/ ToggleUnit /\ UNCHANGED <<hist, currentAlertsData, call>>
    \/ \E r \in DOMAIN reqs : GeocodeAnswer(r) /\ UNCHANGED <<hist, currentAlertsData, call>>
    \/ \E r \in DOMAIN reqs : PositionOK(r) /\ UNCHANGED <<hist, currentAlertsData, call>>
    \/ \E r \in DOMAIN reqs : PositionError(r) /\ UNCHANGED <<hist, currentAlertsData, call>>
    \/ \E r \in DOMAIN reqs : WeatherAnswer(r) /\ UNCHANGED <<hist, currentAlertsData, call>>
    \/ \E r \in DOMAIN reqs : NameAnswer(r) /\ UNCHANGED <<hist, currentAlertsData, call>>

Spec == Init /\ [][Next]_vars

\* An external call of request r answers or fails.
Answers(r) ==
    /\ r \in DOMAIN reqs
    /\ \/ GeocodeAnswer(r) \/ PositionOK(r) \/ PositionError(r)
       \/ WeatherAnswer(r) \/ NameAnswer(r)
    /\ UNCHANGED <<hist, currentAlertsData, call>>

\* script.js when every external call eventually answers or fails: the
\* browser runs the callback of each geolocation lookup and each fetch that
\* is pending.
SpecLive == Spec /\ \A r \in 1..MaxReq : WF_vars(Answers(r))

\* part_000 from its page load, which calls initApp(), with no further
\* click on refresh or current location; the observer hist follows the unit
\* toggles.
InitRender ==
    /\ env \in [revision : {"part000"}, geolocation : BOOLEAN, west : BOOLEAN,
                feed : 1..Len(RenderTable)]
    /\ now \in RenderNows
    /\ isCelsius = FALSE
    /\ currentWeatherData = None
    /\ currentLocationName = ""
    /\ dom = initAppPage(InitialDom, env.geolocation)
    /\ reqs = initAppReqs(<<>>, env.geolocation)
    /\ last = NoSettlement
    /\ hist = <<>>
    /\ currentAlertsData = None
    /\ call = NoCall

\* The unit and the view before a toggle, appended to those of the toggle
\* just before it, if any.
pushHist(h, unit, view) ==
    LET all == Append(h, [unit |-> unit, view |-> view])
    IN  IF Len(all) > 2 THEN Tail(all) ELSE all

NextRender ==
    \/ ToggleUnit /\ hist' = pushHist(hist, isCelsius, dom.view)
                  /\ UNCHANGED <<currentAlertsData, call>>
    \/ \E r \in DOMAIN reqs : PositionOK(r) /\ hist' = <<>> /\ UNCHANGED <<currentAlertsData, call>>
    \/ \E r \in DOMAIN reqs : PositionError(r) /\ hist' = <<>> /\ UNCHANGED <<currentAlertsData, call>>
    \/ \E r \in DOMAIN reqs : WeatherAnswer(r) /\ hist' = <<>> /\ UNCHANGED <<currentAlertsData, call>>
    \/ \E r \in DOMAIN reqs : NameAnswer(r) /\ hist' = <<>> /\ UNCHANGED <<currentAlertsData, call>>

SpecRender == InitRender /\ [][NextRender]_vars

\* part_000 from its page load, served a payload whose parallel arrays
\* differ in length.
InitRagged ==
    /\ env \in [revision : {"part000"}, geolocation : BOOLEAN, west : BOOLEAN,
                feed : (Len(RenderTable) + 1)..Len(FeedTable)]
    /\ now \in RenderNows
    /\ isCelsius = FALSE
    /\ currentWeatherData = None
    /\ currentLocationName = ""
    /\ dom = initAppPage(InitialDom, env.geolocation)
    /\ reqs = initAppReqs(<<>>, env.geolocation)
    /\ last = NoSettlement
    /\ hist = <<>>
    /\ currentAlertsData = None
    /\ call = NoCall

SpecRagged == InitRagged /\ [][NextRender]_vars

(***************************************************************************)
(* handleSearch of part_000, with getCoordinates, fetchWeatherAlerts and   *)
(* updateAlertsUI.  part_000 registers no listener that calls              *)
(* handleSearch and declares no locationInput; the handler is modelled as  *)
(* written, from the point where it holds the trimmed query.               *)
(***************************************************************************)
\* A call of part_000's handleSearch: a request with, in addition,
\*   alerts        the fetchWeatherAlerts call: "none", "pending" or "done";
\*   alertsData    what fetchWeatherAlerts returned, while the request is live;
\*   alertsAnswer  observer: what the alerts service answered.
NewAlertReq ==
    NewReq("alertsearch", "geocoding")
        @@ [alerts |-> "none", alertsData |-> None, alertsAnswer |-> None]

\* The search with a query typed in, or with none.
HandleSearchAlerts ==
    /\ Len(reqs) < MaxReq
    /\ \E query \in {"", "somewhere"} :
          IF query = ""
          THEN UNCHANGED <<dom, reqs>>
          ELSE /\ dom' = hideData(hideError(showLoading(dom)))
               /\ reqs' = Append(reqs, NewAlertReq)
    /\ UNCHANGED <<env, now, isCelsius, currentWeatherData, currentLocationName, last,
                   currentAlertsData>>

\* getCoordinates on an answer of the place search: null when the fetch
\* throws, the response is not OK or the list is empty.
getCoordinates(answer) ==
    IF answer.kind # "ok" \/ Len(answer.list) = 0 THEN None
    ELSE LET result == answer.list[1]
         IN  Some([lat |-> result.lat, lon |-> result.lon,
                   name |-> Head(result.display_name)])

\* getCoordinates(query).then(...): without coordinates the callback throws
\* to the catch, with them it calls fetchWeatherData and fetchWeatherAlerts
\* for Promise.all.
CoordinatesAnswer(r) ==
    /\ reqs[r].pc = "geocoding"
    /\ \E answer \in SearchAnswers(Places) :
          LET coords == getCoordinates(answer)
          IN  IF ~Has(coords)
              THEN /\ reqs' = [reqs EXCEPT ![r] = settle(@, "none")]
                   /\ dom' = failPage(dom, orDefault("Location not found. Please try again.",
                                                     "Failed to fetch weather data."))
                   /\ last' = Settlement(r, IF answer.kind = "ok" THEN "geocode:empty"
                                            ELSE "geocode:" \o answer.kind, None, None)
              ELSE /\ reqs' = [reqs EXCEPT ![r].pc = "fetching", ![r].forecast = "pending",
                                           ![r].alerts = "pending", ![r].coords = coords,
                                           ![r].name = Some(The(coords).name)]
                   /\ UNCHANGED <<dom, last>>
    /\ UNCHANGED <<env, now, isCelsius, currentWeatherData, currentLocationName,
                   currentAlertsData>>

\* A JSON body of the alerts service with the given events.
alertsBody(events) ==
    [features |-> Some([k \in 1..Len(events) |-> [properties |-> [event |-> events[k]]]])]

\* Answers of the alerts service: the fetch throws, the response is not OK
\* (no coverage outside the US), or it is OK with a JSON body: null, an
\* object without features, or one with zero, one or two features.
AlertAnswers ==
    {[kind |-> "threw", body |-> None], [kind |-> "notOk", body |-> None],
     [kind |-> "ok", body |-> None],
     [kind |-> "ok", body |-> Some([features |-> None])],
     [kind |-> "ok", body |-> Some(alertsBody(<<>>))],
     [kind |-> "ok", body |-> Some(alertsBody(<<"Flood Warning">>))],
     [kind |-> "ok", body |-> Some(alertsBody(<<"Flood Warning", "Heat Advisory">>))]}

\* fetchWeatherAlerts on an answer: null when the fetch throws or the
\* response is not OK, otherwise the JSON body.
fetchWeatherAlerts(answer) ==
    IF answer.kind = "threw" THEN None
    ELSE IF answer.kind = "notOk" THEN None
    ELSE answer.body

\* updateAlertsUI that returns without hiding the container.
updateAlertsUIStaysShown(d, data) ==
    IF ~Has(data) \/ ~Has(The(data).features) \/ Len(The(The(data).features)) = 0
    THEN [d EXCEPT !.advisories = <<>>]
    ELSE LET features == The(The(data).features)
         IN  [d EXCEPT !.advisories = [k \in 1..Len(features) |-> features[k].properties.event],
                       !.advisoryHidden = FALSE]

\* updateAlertsUI(data) applied to the page d.
updateAlertsUI(d, data) ==
    IF ~Has(data) \/ ~Has(The(data).features) \/ Len(The(The(data).features)) = 0
    THEN [d EXCEPT !.advisories = <<>>, !.advisoryHidden = TRUE]
    ELSE LET features == The(The(data).features)
         IN  [d EXCEPT !.advisories = [k \in 1..Len(features) |-> features[k].properties.event],
                       !.advisoryHidden = FALSE]

\* The callback of Promise.all([weatherData, alertsData]) of request r,
\* then the finally.
searchCompletes(r, weatherData, alertsData, answer) ==
    /\ reqs' = [reqs EXCEPT ![r] = [settle(@, "ok") EXCEPT !.alerts = "done",
                                                           !.alertsData = None,
                                                           !.alertsAnswer = answer]]
    /\ currentWeatherData' = retainedData(weatherData, currentWeatherData)
    /\ currentLocationName' = retainedName(The(reqs[r].name), currentLocationName)
    /\ currentAlertsData' = alertsData
    /\ dom' = hideLoading(updateAlertsUI(
                  updateUI(dom, Payloads(env)[weatherData], The(reqs[r].name), isCelsius,
                           now, env.revision, env.west),
                  alertsData))
    /\ last' = Settlement(r, "ok", Some(weatherData), reqs[r].name)

\* The forecast of a search of part_000 answers.
SearchWeatherAnswer(r) ==
    /\ reqs[r].kind = "alertsearch"
    /\ reqs[r].forecast = "pending"
    /\ \E answer \in ForecastAnswers(Payloads(env)) :
          LET res == fetchWeatherData(answer)
          IN  IF res.threw
              THEN /\ reqs' = [reqs EXCEPT ![r] = [settle(@, "failed") EXCEPT
                                                       !.alertsData = None]]
                   /\ dom' = failPage(dom, orDefault(res.message,
                                                     "Failed to fetch weather data."))
                   /\ last' = Settlement(r, "forecast:" \o answer.kind, None, None)
                   /\ UNCHANGED <<currentWeatherData, currentLocationName, currentAlertsData>>
              ELSE IF reqs[r].alerts = "done"
              THEN searchCompletes(r, The(res.data), The(reqs[r].alertsData),
                                   reqs[r].alertsAnswer)
              ELSE /\ reqs' = [reqs EXCEPT ![r].forecast = "ok", ![r].data = res.data]
                   /\ UNCHANGED <<currentWeatherData, currentLocationName,
                                  currentAlertsData, dom, last>>
    /\ UNCHANGED <<env, now, isCelsius>>

\* The alerts fetch of a search of part_000 answers.  It never rejects;
\* once the forecast has failed its result is dropped.
AlertsAnswer(r) ==
    /\ reqs[r].kind = "alertsearch"
    /\ reqs[r].alerts = "pending"
    /\ \E answer \in AlertAnswers :
          LET data == fetchWeatherAlerts(answer)
              live == reqs[r].pc = "fetching"
          IN  IF live /\ reqs[r].forecast = "ok"
              THEN searchCompletes(r, The(reqs[r].data), data, Some(answer))
              ELSE /\ reqs' = [reqs EXCEPT ![r].alerts = "done",
                                           ![r].alertsAnswer = Some(answer),
                                           ![r].alertsData = IF live THEN Some(data) ELSE @]
                   /\ UNCHANGED <<currentWeatherData, currentLocationName,
                                  currentAlertsData, dom, last>>
    /\ UNCHANGED <<env, now, isCelsius>>

\* The forecast feed of the runs with alerts: five hours from midnight and
\* three days from yesterday.
AlertsFeed ==
    CHOOSE k \in DOMAIN RenderTable :
        RenderTable[k] = payloadOf(currentOf(7, 95, 0), hourlyOf(hourRun(24, 5)),
                                   dailyOf(1, 3, TRUE))

\* part_000 loaded in a browser without geolocation, so that only searches
\* fetch anything; the forecast service answers with the one payload of
\* AlertsFeed, or fails.
InitAlerts ==
    /\ env = [revision |-> "part000", geolocation |-> FALSE, west |-> FALSE,
              feed |-> AlertsFeed]
    /\ now = 34
    /\ isCelsius = FALSE
    /\ currentWeatherData = None
    /\ currentLocationName = ""
    /\ dom = initAppPage(InitialDom, env.geolocation)
    /\ reqs = initAppReqs(<<>>, env.geolocation)
    /\ last = NoSettlement
    /\ hist = <<>>
    /\ currentAlertsData = None
    /\ call = NoCall

NextAlerts ==
    \/ HandleSearchAlerts /\ UNCHANGED <<hist, call>>
    \/ InitApp /\ UNCHANGED <<hist, currentAlertsData, call>>
    \/ ToggleUnit /\ UNCHANGED <<hist, currentAlertsData, call>>
    \/ \E r \in DOMAIN reqs : CoordinatesAnswer(r) /\ UNCHANGED <<hist, call>>
    \/ \E r \in DOMAIN reqs : SearchWeatherAnswer(r) /\ UNCHANGED <<hist, call>>
    \/ \E r \in DOMAIN reqs : AlertsAnswer(r) /\ UNCHANGED <<hist, call>>

SpecAlerts == InitAlerts /\ [][NextAlerts]_vars

(***************************************************************************)
(* The formatting functions applied on their own.                          *)
(***************************************************************************)
\* The script as loaded by a browser without geolocation; only `call` moves.
InitPure ==
    /\ env = [revision |-> "part000", geolocation |-> FALSE, west |-> FALSE, feed |-> 1]
    /\ now = 34
    /\ isCelsius = FALSE
    /\ currentWeatherData = None
    /\ currentLocationName = ""
    /\ dom = initAppPage(InitialDom, env.geolocation)
    /\ reqs = initAppReqs(<<>>, env.geolocation)
    /\ last = NoSettlement
    /\ hist = <<>>
    /\ currentAlertsData = None
    /\ call = NoCall

\* What stays as it is while a function is applied on its own.
program == <<env, now, isCelsius, currentWeatherData, currentLocationName, dom, reqs, last,
             hist, currentAlertsData>>

\* formatTemp(celsius) under either value of isCelsius.
CallFormatTemp ==
    /\ \E c \in (-MaxTemp)..MaxTemp, unit \in BOOLEAN :
          call' = [fn |-> "formatTemp", arg |-> <<c, unit>>, result |-> formatTemp(c, unit)]
    /\ UNCHANGED program

\* mapWmoToOwmIcon(wmoCode, isDay), isDay being 0 or 1 as the service sends it.
CallMapWmoToOwmIcon ==
    /\ \E code \in (-1)..MaxCode, isDay \in {0, 1} :
          call' = [fn |-> "mapWmoToOwmIcon", arg |-> <<code, isDay>>,
                   result |-> mapWmoToOwmIcon(code, isDay)]
    /\ UNCHANGED program

\* The icon renderForecast gives a daily entry with the weather code `code`.
CallForecastIcon ==
    /\ \E code \in (-1)..MaxCode, unit \in BOOLEAN :
          LET daily == [dailyOf(3, 1, TRUE) EXCEPT !.weather_code = <<code>>]
          IN  call' = [fn |-> "forecastIcon", arg |-> <<code, unit>>,
                       result |-> forecastItem(daily, 0, unit, env.west).icon]
    /\ UNCHANGED program

NextPure ==
    \/ CallFormatTemp
    \/ CallMapWmoToOwmIcon
    \/ CallForecastIcon

SpecPure == InitPure /\ [][NextPure]_vars

(***************************************************************************)
(* Properties.                                                             *)
(***************************************************************************)
\* A payload with its three sections.
Complete(p) == Has(p.current) /\ Has(p.hourly) /\ Has(p.daily)

\* The payload a reference stands for.
PayloadAt(ref) == Payloads(env)[ref]

\* The retained pair.
Pair == <<currentWeatherData, currentLocationName>>

\* A request settles in this step.
Settles == last' # last

\* C1: when a fetched payload lacks one of the sections current, hourly,
\* daily, updateUI renders nothing: in the step that retains such a payload,
\* and in a unit toggle while such a payload is retained, no field of the
\* view changes and the weather-data panel stays as hidden as it was.
C1_IncompleteRendersNothing ==
    [][LET fetched == /\ Settles /\ last'.cause = "ok"
                      /\ ~Complete(PayloadAt(The(last'.data)))
           toggled == /\ isCelsius' # isCelsius /\ Has(currentWeatherData)
                      /\ ~Complete(PayloadAt(The(currentWeatherData)))
       IN  (fetched \/ toggled) =>
               /\ dom'.view = dom.view
               /\ dom'.dataHidden = dom.dataHidden]_vars

\* C1 witness: an incomplete payload was fetched and retained, and the page
\* shows neither data nor an error nor the loading indicator.
C1_Witness ==
    /\ last.cause = "ok"
    /\ Has(currentWeatherData) /\ currentWeatherData = last.data
    /\ ~Complete(PayloadAt(The(currentWeatherData)))
    /\ dom.dataHidden /\ dom.errorHidden /\ dom.loadingHidden
    /\ dom.view = BlankView

\* Request r, in flight before the step, completes successfully in it.
Succeeds(r) ==
    /\ reqs[r].pc = "fetching" /\ reqs'[r].pc = "done"
    /\ reqs'[r].forecast = "ok"
    /\ last'.req = r /\ last'.cause = "ok"

\* The payload and the name request r completes with: those it already
\* holds, or else those that arrive in the step.
PayloadOf(r) == IF Has(reqs[r].data) THEN reqs[r].data ELSE last'.data
NameOf(r) == IF Has(reqs[r].name) THEN The(reqs[r].name) ELSE The(last'.name)

\* C6: the retained pair (currentWeatherData, currentLocationName) changes
\* only in a step in which a request completes successfully, and in such a
\* step both members become the payload and the name of that one request;
\* every other step (unit toggle, failed fetch, geolocation error, search
\* with no result, start of a request) leaves the pair as it was.
C6_PairReplacedTogether ==
    [][/\ Pair' # Pair => \E r \in DOMAIN reqs : Succeeds(r)
       /\ \A r \in DOMAIN reqs :
             Succeeds(r) => /\ currentWeatherData' = PayloadOf(r)
                            /\ currentLocationName' = NameOf(r)]_vars

\* C6 witness: a pair retained from one request is still there after a later
\* settlement that failed, with the name that request resolved.
C6_Witness ==
    /\ Has(currentWeatherData) /\ currentLocationName = "Paris"
    /\ last.req # 0 /\ last.cause \notin {"ok", ""}
    /\ \E r \in DOMAIN reqs : r # last.req /\ reqs[r].forecast = "ok" /\ reqs[r].pc = "done"

\* The view holds the rendering of the retained pair, when its payload has
\* the three sections.
Displayed ==
    LET p == PayloadAt(The(currentWeatherData))
    IN  Complete(p) =>
            dom.view = paintView(p, currentLocationName, isCelsius, now,
                                 env.revision, env.west)

\* C7: a request in flight is not cancelled or changed when another request
\* is started, every successful completion overwrites the pair and
\* re-renders, and so whenever the last request to settle settled
\* successfully, the retained pair and the rendered data are those of that
\* request, whichever request was issued first; the completion itself puts
\* the panel on display.
C7_LastCompletionWins ==
    /\ [](last.cause = "ok" =>
              /\ currentWeatherData = last.data
              /\ currentLocationName = The(last.name)
              /\ Displayed)
    /\ [][Len(reqs') > Len(reqs) => \A r \in DOMAIN reqs : reqs'[r] = reqs[r]]_vars
    /\ [][\A r \in DOMAIN reqs :
             Succeeds(r) =>
                 /\ Pair' = <<PayloadOf(r), NameOf(r)>>
                 /\ Complete(PayloadAt(The(PayloadOf(r)))) => ~dom'.dataHidden]_vars

\* C7 witness: two requests both completed successfully, the one issued
\* first completing last, with a different name from the other, and its pair
\* is the one retained.
C7_Witness ==
    /\ Len(reqs) = 2
    /\ \A r \in {1, 2} : reqs[r].pc = "done" /\ reqs[r].forecast = "ok"
    /\ reqs[1].kind # reqs[2].kind
    /\ last.req = 1 /\ last.cause = "ok"
    /\ currentWeatherData = last.data /\ currentLocationName = The(last.name)

\* C8: in the current-location flow the forecast request and the
\* reverse-geocoding request are issued in the same step, so before either
\* completes; as long as one of them is outstanding nothing is retained or
\* rendered for the request; the pair is written and the view rendered in
\* the step in which the second of the two completes, in either order; and
\* when the forecast fails nothing is retained or rendered for the request,
\* whether or not reverse geocoding has already produced a name.
C8_BothBeforeRender ==
    [][\A r \in DOMAIN reqs :
          reqs[r].kind = "geo" =>
              /\ (reqs[r].forecast = "none" /\ reqs[r].reverse = "none"
                  /\ (reqs'[r].forecast # "none" \/ reqs'[r].reverse # "none"))
                     => reqs'[r].forecast = "pending" /\ reqs'[r].reverse = "pending"
              /\ (reqs'[r] # reqs[r] /\ reqs'[r].pc = "fetching")
                     => Pair' = Pair /\ dom' = dom
              /\ Succeeds(r)
                     => /\ "pending" \in {reqs[r].forecast, reqs[r].reverse}
                        /\ reqs[r].forecast \in {"pending", "ok"}
                        /\ reqs[r].reverse \in {"pending", "done"}
                        /\ reqs'[r].forecast = "ok" /\ reqs'[r].reverse = "done"
              /\ (reqs[r].forecast = "pending" /\ reqs'[r].forecast = "failed")
                     => /\ Pair' = Pair
                        /\ dom'.view = dom.view
                        /\ dom'.dataHidden = dom.dataHidden
              /\ (reqs[r].forecast = "failed" /\ reqs'[r] # reqs[r])
                     => Pair' = Pair /\ dom' = dom]_vars

\* C8 witness: one current-location request failed on its forecast although
\* its reverse geocode answered, another holds its forecast while its
\* reverse geocode is outstanding, and nothing is retained or rendered.
C8_Witness ==
    /\ Len(reqs) = 2
    /\ reqs[1].kind = "geo" /\ reqs[1].forecast = "failed" /\ reqs[1].reverse = "done"
    /\ reqs[2].kind = "geo" /\ reqs[2].forecast = "ok" /\ reqs[2].reverse = "pending"
    /\ Has(reqs[2].data)
    /\ currentWeatherData = None /\ dom.view = BlankView /\ dom.dataHidden

\* The coordinates and the name a search result gives.
CoordsOf(p) == [lat |-> p.lat, lon |-> p.lon, name |-> Head(p.display_name)]

\* C9: in the search flow the forecast request is issued only in the step
\* in which geocoding returns a non-empty result, with the coordinates and
\* the name of its first result; when geocoding returns an empty list the
\* request ends with no forecast request issued, then or later, the page
\* shows 'Location not found. Please try again.' and the retained pair is
\* unchanged.
C9_ForecastAfterGeocode ==
    /\ [](\A r \in DOMAIN reqs :
             (reqs[r].kind = "search" /\ reqs[r].pc = "geocoding")
                 => reqs[r].forecast = "none")
    /\ [][\A r \in DOMAIN reqs :
             reqs[r].kind = "search" =>
                 /\ (reqs[r].forecast = "none" /\ reqs'[r].forecast # "none")
                        => /\ reqs[r].pc = "geocoding"
                           /\ reqs'[r].forecast = "pending"
                           /\ \E p \in Places :
                                 /\ reqs'[r].coords = Some(CoordsOf(p))
                                 /\ reqs'[r].name = Some(CoordsOf(p).name)
                 /\ (Settles /\ last'.req = r /\ last'.cause = "geocode:empty")
                        => /\ reqs'[r].pc = "done" /\ reqs'[r].forecast = "none"
                           /\ dom'.errorText = "Location not found. Please try again."
                           /\ ~dom'.errorHidden
                           /\ Pair' = Pair
                 /\ reqs[r].pc = "done" => reqs'[r] = reqs[r]]_vars

\* C9 witness: a search found nothing after an earlier request succeeded:
\* the message is on the page, no forecast was requested for the search and
\* the earlier pair is retained.
C9_Witness ==
    /\ last.cause = "geocode:empty"
    /\ reqs[last.req].kind = "search" /\ reqs[last.req].forecast = "none"
    /\ dom.errorText = "Location not found. Please try again." /\ ~dom.errorHidden
    /\ Has(currentWeatherData)

\* C10: when the forecast service answers with a non-OK status, the page
\* shows 'Weather API not available.', nothing is rendered for the request
\* (the view and the visibility of the data panel are as before), the
\* retained pair keeps its previous value and the loading indicator ends
\* hidden.
C10_ForecastNotOk ==
    [][(Settles /\ last'.cause = "forecast:notOk") =>
           /\ dom'.errorText = "Weather API not available."
           /\ ~dom'.errorHidden
           /\ dom'.loadingHidden
           /\ dom'.view = dom.view
           /\ dom'.dataHidden = dom.dataHidden
           /\ Pair' = Pair
           /\ reqs'[last'.req].pc = "done"]_vars

\* C10 witness: a forecast answered non-OK after an earlier request
\* succeeded: the message is shown, loading is hidden, the earlier pair and
\* its rendering remain.
C10_Witness ==
    /\ last.cause = "forecast:notOk"
    /\ dom.errorText = "Weather API not available." /\ ~dom.errorHidden
    /\ dom.loadingHidden
    /\ Has(currentWeatherData) /\ dom.view # BlankView

(***************************************************************************)
(* Properties of the rendering of part_000.                                *)
(***************************************************************************)
\* A payload with its three sections is retained, so the view is its
\* rendering.
Rendered == Has(currentWeatherData) /\ Complete(PayloadAt(The(currentWeatherData)))

RetainedHourly == The(PayloadAt(The(currentWeatherData)).hourly)
RetainedDaily == The(PayloadAt(The(currentWeatherData)).daily)

\* The indices of the hourly samples whose timestamp is not before now.
NotBeforeNow(time) == {i \in 0..(Len(time) - 1) : DateParse(At(time, i)) >= now}

\* The least of a non-empty set of numbers.
Least(S) == CHOOSE i \in S : \A j \in S : i <= j

\* The indices the strip is to show: from the first sample not before now
\* (from 0 when there is none), every third one inside the array, 8 at most.
StripIndices(time) ==
    LET start == IF NotBeforeNow(time) = {} THEN 0 ELSE Least(NotBeforeNow(time))
        n == Cardinality({k \in 0..7 : start + 3 * k < Len(time)})
    IN  [k \in 1..n |-> start + 3 * (k - 1)]

\* C2: the hourly strip starts at the first index whose timestamp is >= now,
\* or at 0 when no timestamp is, and shows the samples at indices start,
\* start+3, start+6, ... inside the array, 8 at most, in that order; 24
\* samples all later than now give the 8 samples at 0, 3, ..., 21.
C2_HourlyStrip ==
    Rendered =>
        LET hourly == RetainedHourly
            idx == StripIndices(hourly.time)
            list == dom.view.hourlyList
        IN  /\ Len(list) = Len(idx) /\ Len(list) <= 8
            /\ \A k \in 1..Len(idx) : list[k] = hourlyItem(hourly, idx[k], isCelsius)
            /\ (Len(hourly.time) = 24 /\ Cardinality(NotBeforeNow(hourly.time)) = 24)
                   => idx = <<0, 3, 6, 9, 12, 15, 18, 21>>

\* C2 witness: 24 samples all later than now are rendered as 8 items, the
\* last being the sample at index 21.
C2_Witness ==
    /\ Rendered
    /\ Len(RetainedHourly.time) = 24
    /\ \A i \in 0..23 : DateParse(At(RetainedHourly.time, i)) > now
    /\ Len(dom.view.hourlyList) = 8
    /\ dom.view.hourlyList[8] = hourlyItem(RetainedHourly, 21, isCelsius)

\* The day number of tomorrow's local calendar date.
Tomorrow == (now \div 24) + 1

\* The indices of the daily entries dated strictly after tomorrow.
AfterTomorrow(time) ==
    {i \in 0..(Len(time) - 1) : DateParseDay(At(time, i)) > Tomorrow}

\* The k-th smallest element of a set of numbers.
Nth(S, k) == CHOOSE i \in S : Cardinality({j \in S : j <= i}) = k

\* C3: the daily list skips every entry dated today or tomorrow or earlier
\* and shows, in the payload's order, the first entries dated strictly after
\* tomorrow, 5 at most.
C3_DailyAfterTomorrow ==
    Rendered =>
        LET daily == RetainedDaily
            later == AfterTomorrow(The(daily.time))
            list == dom.view.forecastList
            n == IF Cardinality(later) < 5 THEN Cardinality(later) ELSE 5
        IN  /\ Len(list) = n
            /\ \A k \in 1..n :
                  list[k] = forecastItem(daily, Nth(later, k), isCelsius, env.west)

\* C3 witness: a payload with entries up to tomorrow and more than 5 after
\* it is rendered as 5 items, on a last day of the month.
C3_Witness ==
    /\ Rendered
    /\ LET time == The(RetainedDaily.time)
       IN  /\ Cardinality(AfterTomorrow(time)) > 5
           /\ \E i \in 0..(Len(time) - 1) : DateParseDay(At(time, i)) = Tomorrow
           /\ \E i \in 0..(Len(time) - 1) : DateParseDay(At(time, i)) = Tomorrow - 1
    /\ LocalDate(now)[3] = 31
    /\ Len(dom.view.forecastList) = 5

\* The retained daily section has 8 entries on consecutive dates, the first
\* dated today.
EightDaysFromToday ==
    /\ Rendered
    /\ LET time == The(RetainedDaily.time)
       IN  /\ Len(time) = 8
           /\ \A i \in 0..7 : DateParseDay(At(time, i)) = (now \div 24) + i

\* The forecast list is the 5 entries of the retained daily section from
\* index first on.
FiveFrom(first) ==
    /\ Len(dom.view.forecastList) = 5
    /\ \A k \in 1..5 :
          dom.view.forecastList[k] =
              forecastItem(RetainedDaily, first + k - 1, isCelsius, env.west)

\* C4 as stated: with 8 consecutive dates from today the list is the 5
\* entries from day index 3 on, days 0, 1 and 2 being skipped.
C4_AsStated == EightDaysFromToday => FiveFrom(3)

\* C4: with 8 consecutive dates from today the list has exactly 5 entries,
\* those at day indices 2 to 6: days 0 (today) and 1 (tomorrow) are skipped
\* and the first entry is the day after tomorrow.
C4_FiveFromDayAfterTomorrow ==
    EightDaysFromToday =>
        /\ FiveFrom(2)
        /\ DateParseDay(At(The(RetainedDaily.time), 2)) = Tomorrow + 1

\* C4 witness: such a payload is on display, its first item being entry 2.
C4_Witness ==
    /\ EightDaysFromToday
    /\ ~dom.dataHidden
    /\ dom.view.forecastList[1] = forecastItem(RetainedDaily, 2, isCelsius, env.west)
    /\ dom.view.forecastList[1] # forecastItem(RetainedDaily, 3, isCelsius, env.west)

\* C5: after two toggleUnit calls in a row with no fetch in between, the
\* unit flag and the whole view are what they were before the two calls.
C5_DoubleToggle ==
    Len(hist) = 2 => /\ isCelsius = hist[1].unit
                     /\ dom.view = hist[1].view

\* C5 witness: with a rendered payload, the first of two toggles changed
\* the view and the second brought it back.
C5_Witness ==
    /\ Rendered /\ Len(hist) = 2
    /\ hist[2].unit # hist[1].unit /\ hist[2].view # hist[1].view
    /\ isCelsius = hist[1].unit /\ dom.view = hist[1].view

(***************************************************************************)
(* Properties of the formatting functions.                                 *)
(***************************************************************************)
\* r is x = num / den (den > 0) rounded to the nearest integer, ties towards
\* positive infinity: r - 1/2 <= x < r + 1/2.
IsRounded(r, num, den) ==
    /\ (2 * r - 1) * den <= 2 * num
    /\ 2 * num < (2 * r + 1) * den

\* C18: for every integer Celsius input c in -MaxTemp..MaxTemp, formatTemp
\* returns round(c) under Metric and round(c*9/5+32) under Imperial, round
\* being the nearest integer with ties towards positive infinity; 20 under
\* Imperial gives 68.
C18_FormatTemp ==
    call.fn = "formatTemp" =>
        LET c == call.arg[1]
            metric == call.arg[2]
        IN  /\ metric => IsRounded(call.result, c, 1)
            /\ ~metric => IsRounded(call.result, 9 * c + 160, 5)
            /\ (c = 20 /\ ~metric) => call.result = 68

\* C18 witness: formatTemp(20) under Imperial has returned 68.
C18_Witness == call = [fn |-> "formatTemp", arg |-> <<20, FALSE>>, result |-> 68]

\* The prefix the icon mapping is to give a code.
IconPrefix(code) ==
    CASE code = 0 -> "01"
      [] code = 1 -> "02"
      [] code = 2 -> "03"
      [] code = 3 -> "04"
      [] code \in {45, 48} -> "50"
      [] code \in {51, 53, 55, 56, 57, 61, 63, 65, 66, 67, 80, 81, 82} -> "10"
      [] code \in {71, 73, 75, 77, 85, 86} -> "13"
      [] code \in {95, 96, 99} -> "11"
      [] OTHER -> "03"

PrefixesReturned == {mapWmoToOwmIcon(code, isDay)[1] : code \in 0..99, isDay \in {0, 1}}

\* C20: over the codes 0..99 and either isDay value the icon mapping returns
\* a value with the suffix of that isDay, and the two-digit prefixes it
\* returns over that space are exactly nine.
C20_NinePrefixes ==
    call.fn = "mapWmoToOwmIcon" =>
        /\ call.result[2] = (IF call.arg[2] = 1 THEN "d" ELSE "n")
        /\ call.result[1] \in PrefixesReturned
        /\ Cardinality(PrefixesReturned) = 9

(***************************************************************************)
(* Properties of the failure paths of script.js.                           *)
(***************************************************************************)
\* A step of initApp in a browser without geolocation: no request is
\* started or answered and the unit is not toggled, yet the page changes.
UnsupportedStep ==
    /\ ~env.geolocation
    /\ reqs' = reqs /\ isCelsius' = isCelsius /\ dom' # dom

\* C15: when the browser lacks geolocation or the position request fails,
\* no forecast and no reverse-geocode request is issued for that action,
\* then or later, the retained pair is unchanged, the loading indicator is
\* hidden and the page shows 'Geolocation is not supported by your browser.',
\* 'Location permission denied. Please enable location access.' when
\* permission was denied, 'Unable to retrieve your location.' for any other
\* position error.
C15_NoPosition ==
    /\ [](~env.geolocation => \A r \in DOMAIN reqs : reqs[r].kind # "geo")
    /\ [][UnsupportedStep =>
             /\ dom'.errorText = "Geolocation is not supported by your browser."
             /\ ~dom'.errorHidden /\ dom'.loadingHidden
             /\ Pair' = Pair]_vars
    /\ [][(Settles /\ last'.cause \in {"position:denied", "position:other"}) =>
             /\ dom'.errorText =
                    (IF last'.cause = "position:denied"
                     THEN "Location permission denied. Please enable location access."
                     ELSE "Unable to retrieve your location.")
             /\ ~dom'.errorHidden /\ dom'.loadingHidden
             /\ Pair' = Pair
             /\ reqs[last'.req].pc = "locating"
             /\ reqs'[last'.req].pc = "done"
             /\ reqs'[last'.req].forecast = "none"
             /\ reqs'[last'.req].reverse = "none"]_vars
    /\ [][\A r \in DOMAIN reqs :
             (reqs[r].pc = "done" /\ reqs[r].forecast = "none") => reqs'[r] = reqs[r]]_vars

\* C15 witness: permission was denied after an earlier search had
\* succeeded: the message is shown, loading is hidden, nothing was requested
\* for the look-up and the earlier pair is retained.
C15_Witness ==
    /\ last.cause = "position:denied"
    /\ dom.errorText = "Location permission denied. Please enable location access."
    /\ ~dom.errorHidden /\ dom.loadingHidden
    /\ reqs[last.req].forecast = "none" /\ reqs[last.req].reverse = "none"
    /\ Has(currentWeatherData) /\ currentLocationName = "Paris"

\* The causes of a settlement in failure.
Failures ==
    {"geocode:threw", "geocode:notOk", "geocode:empty", "position:denied",
     "position:other", "forecast:threw", "forecast:notOk"}

\* C16: nothing is retried.  Each request (one user action) makes each of
\* its calls at most once: its position or place look-up is pending from
\* its start and never again once answered, its forecast and its reverse
\* geocode go from not made to pending at most once and never back; when a
\* request settles in failure it is done with no call newly pending, and a
\* done request changes no more, except that an outstanding reverse geocode
\* may still answer.  New calls come only with a new request.
C16_NoRetry ==
    /\ [][\A r \in DOMAIN reqs :
             /\ reqs'[r].pc # reqs[r].pc =>
                    \/ reqs[r].pc \in {"geocoding", "locating"} /\ reqs'[r].pc \in {"fetching", "done"}
                    \/ reqs[r].pc = "fetching" /\ reqs'[r].pc = "done"
             /\ reqs'[r].forecast # reqs[r].forecast =>
                    \/ reqs[r].forecast = "none" /\ reqs'[r].forecast = "pending"
                    \/ reqs[r].forecast = "pending" /\ reqs'[r].forecast \in {"ok", "failed"}
             /\ reqs'[r].reverse # reqs[r].reverse =>
                    \/ reqs[r].reverse = "none" /\ reqs'[r].reverse = "pending"
                    \/ reqs[r].reverse = "pending" /\ reqs'[r].reverse = "done"]_vars
    /\ [][(Settles /\ last'.cause \in Failures) =>
             /\ reqs'[last'.req].pc = "done"
             /\ reqs'[last'.req].forecast # "pending"
             /\ reqs'[last'.req].reverse = reqs[last'.req].reverse
             /\ \A r \in DOMAIN reqs : r # last'.req => reqs'[r] = reqs[r]]_vars
    /\ [][\A r \in DOMAIN reqs :
             reqs[r].pc = "done" =>
                 \/ reqs'[r] = reqs[r]
                 \/ /\ reqs[r].reverse = "pending"
                    /\ reqs'[r] = [reqs[r] EXCEPT !.reverse = "done",
                                                  !.reverseAnswer = reqs'[r].reverseAnswer]]_vars

\* C16 witness: a forecast failed and, with no further user action, nothing
\* is pending any more.
C16_Witness ==
    /\ last.cause \in {"forecast:threw", "forecast:notOk"}
    /\ Len(reqs) = 1
    /\ reqs[1].pc = "done" /\ reqs[1].forecast = "failed" /\ reqs[1].reverse # "pending"

\* C11: when a fetched payload lacks a required section, the caller shows
\* an error and discards the payload: in the step in which the request
\* settles the error message becomes visible and the retained payload is
\* not the malformed one.
C11_MalformedSurfaced ==
    [][(Settles /\ last'.cause = "ok" /\ ~Complete(PayloadAt(The(last'.data)))) =>
           /\ ~dom'.errorHidden
           /\ currentWeatherData' # last'.data]_vars

\* C17: whenever the weather-data panel is visible, the view is the
\* rendering of a payload with all its temperatures, wind speeds,
\* visibility and unit suffixes in the system the unit flag selects.
C17_OneUnitSystem ==
    ~dom.dataHidden =>
        \E i \in DOMAIN Payloads(env) :
            /\ Complete(PayloadAt(i))
            /\ dom.view = paintView(PayloadAt(i), The(dom.view.locationName), isCelsius,
                                    now, env.revision, env.west)

(***************************************************************************)
(* Properties of the reverse geocode.                                      *)
(***************************************************************************)
\* The reverse geocode failed: the fetch threw, the response was not OK, or
\* its address has none of the fields the script looks for.
ReverseFailed(a) == a.kind \in {"threw", "notOk"} \/ a.address = NoAddress

\* The reverse geocode of request r is answered in this step.
ReverseAnswered(r) == reqs[r].reverse = "pending" /\ reqs'[r].reverse = "done"

\* A failed reverse geocode raises nothing and leaves each request it
\* belongs to with the display name fallback(answer); when the forecast
\* succeeds the request completes with the payload retained and rendered
\* under that name.
ReverseNeverBlocks(fallback(_)) ==
    \A r \in DOMAIN reqs :
        /\ (ReverseAnswered(r) /\ ReverseFailed(The(reqs'[r].reverseAnswer))) =>
               /\ dom'.errorHidden = dom.errorHidden /\ dom'.errorText = dom.errorText
               /\ reqs[r].forecast = "pending" =>
                      reqs'[r].name = Some(fallback(The(reqs'[r].reverseAnswer)))
               /\ reqs[r].forecast = "ok" => Succeeds(r)
        /\ (reqs[r].reverse = "done" /\ reqs[r].forecast = "pending"
            /\ reqs'[r].forecast = "ok") => Succeeds(r)
        /\ (Succeeds(r) /\ reqs[r].kind = "geo"
            /\ ReverseFailed(The(reqs'[r].reverseAnswer))) =>
               /\ currentLocationName' = fallback(The(reqs'[r].reverseAnswer))
               /\ currentWeatherData' = PayloadOf(r)
               /\ Complete(PayloadAt(The(PayloadOf(r)))) =>
                      /\ ~dom'.dataHidden
                      /\ dom'.view.locationName = Some(currentLocationName')

\* The one fallback name of C13 as stated.
YourLocation(a) == "Your Location"

\* The fallback names of the code.
FallbackName(a) == IF a.kind = "notOk" THEN "Unknown Location" ELSE "Your Location"

\* C13 as stated: every failure of the reverse geocode (thrown transport
\* error, non-OK response, no usable address) gives the display name
\* 'Your Location' and is never raised, so it never prevents the forecast
\* from being retained and rendered.
C13_AsStated == [][ReverseNeverBlocks(YourLocation)]_vars

\* C13: a thrown transport error and a response without a usable address
\* give the display name 'Your Location', a non-OK response gives 'Unknown
\* Location'; none is raised, so no failure of the reverse geocode prevents
\* the forecast from being retained and rendered.
C13_ReverseFallbacks == [][ReverseNeverBlocks(FallbackName)]_vars

\* C13 witness: the reverse geocode answered non-OK and the forecast is on
\* display under the name 'Unknown Location'.
C13_Witness ==
    /\ last.cause = "ok"
    /\ reqs[last.req].reverseAnswer = Some([kind |-> "notOk", address |-> NoAddress])
    /\ currentLocationName = "Unknown Location"
    /\ Rendered /\ ~dom.dataHidden /\ dom.errorHidden
    /\ dom.view.locationName = Some("Unknown Location")

(***************************************************************************)
(* Properties of payloads whose arrays differ in length.                   *)
(***************************************************************************)
\* The lengths of the arrays of the hourly section, and of the daily
\* section with the optional arrays that are present.
HourlyLengths(h) ==
    {Len(h.time), Len(h.temperature_2m), Len(h.weather_code), Len(h.is_day)}

DailyLengths(d) ==
    {Len(The(d.time)), Len(d.temperature_2m_max), Len(d.temperature_2m_min),
     Len(d.weather_code)}
    \cup {Len(The(a)) : a \in {x \in {d.sunrise, d.sunset, d.precipitation_probability_max,
                                       d.wind_speed_10m_max, d.uv_index_max} : Has(x)}}

\* A payload with its three sections whose parallel arrays differ in length.
Ragged(p) ==
    /\ Complete(p)
    /\ Cardinality(HourlyLengths(The(p.hourly))) > 1
       \/ Cardinality(DailyLengths(The(p.daily))) > 1

\* C12: a payload whose parallel arrays violate the length invariant is
\* rejected as malformed: once it has been fetched nothing is rendered from
\* it (the view stays blank and the panel hidden), and in particular no
\* hourly or daily entry is built from an index missing in one of the
\* arrays (no rendered value is undefined or NaN).
C12_RaggedRejected ==
    (Has(currentWeatherData) /\ Ragged(PayloadAt(The(currentWeatherData)))) =>
        /\ dom.dataHidden
        /\ dom.view = BlankView
        /\ \A k \in DOMAIN dom.view.hourlyList :
              dom.view.hourlyList[k].temp # NaN
        /\ \A k \in DOMAIN dom.view.forecastList :
              /\ dom.view.forecastList[k].maxTemp # NaN
              /\ dom.view.forecastList[k].minTemp # NaN
              /\ dom.view.forecastList[k].wind[1] # NaN

(***************************************************************************)
(* Properties of the alerts fetch.                                         *)
(***************************************************************************)
\* The alerts fetch failed: it threw or the response was not OK.
AlertsFailed(a) == a.kind \in {"threw", "notOk"}

\* The alerts fetch of request r is answered in this step.
AlertsAnswered(r) == reqs[r].alerts = "pending" /\ reqs'[r].alerts = "done"

\* An alerts payload with nothing to show: null, without a features list,
\* or with an empty one.
NoAdvisories(data) ==
    \/ ~Has(data)
    \/ ~Has(The(data).features)
    \/ Len(The(The(data).features)) = 0

\* C14: the alerts fetch is best-effort.  A fetch that threw or answered
\* non-OK yields null and raises nothing; whatever the alerts fetch yields
\* and whichever of the two answers arrives last, a search whose forecast
\* succeeded completes with the forecast retained and rendered; and a null
\* alerts payload, one without features and one with an empty list all give
\* zero advisories with the advisory container hidden.
C14_AlertsBestEffort ==
    [][\A r \in DOMAIN reqs :
          /\ (AlertsAnswered(r) /\ AlertsFailed(The(reqs'[r].alertsAnswer))) =>
                 /\ dom'.errorHidden = dom.errorHidden /\ dom'.errorText = dom.errorText
                 /\ (reqs[r].pc = "fetching" /\ reqs[r].forecast = "pending") =>
                        reqs'[r].alertsData = Some(None)
                 /\ (reqs[r].pc = "fetching" /\ reqs[r].forecast = "ok") =>
                        currentAlertsData' = None
          /\ (AlertsAnswered(r) /\ reqs[r].pc = "fetching" /\ reqs[r].forecast = "ok") =>
                 Succeeds(r)
          /\ (reqs[r].kind = "alertsearch" /\ reqs[r].alerts = "done"
              /\ reqs[r].forecast = "pending" /\ reqs'[r].forecast = "ok") => Succeeds(r)
          /\ (Succeeds(r) /\ reqs[r].kind = "alertsearch") =>
                 /\ Pair' = <<PayloadOf(r), NameOf(r)>>
                 /\ ~dom'.dataHidden
                 /\ dom'.view = paintView(PayloadAt(The(PayloadOf(r))), NameOf(r), isCelsius,
                                          now, env.revision, env.west)
                 /\ IF NoAdvisories(currentAlertsData')
                    THEN dom'.advisories = <<>> /\ dom'.advisoryHidden
                    ELSE /\ Len(dom'.advisories) = Len(The(The(currentAlertsData').features))
                         /\ ~dom'.advisoryHidden]_vars

\* C14 witness: after a search that put advisories on display, a later search
\* whose alerts fetch answered non-OK has completed: its forecast is retained
\* and on display, no advisory is listed and the container is hidden.
C14_Witness ==
    /\ last.cause = "ok"
    /\ reqs[last.req].alertsAnswer = Some([kind |-> "notOk", body |-> None])
    /\ currentWeatherData = last.data /\ ~dom.dataHidden /\ dom.errorHidden
    /\ currentAlertsData = None
    /\ dom.advisories = <<>> /\ dom.advisoryHidden
    /\ \E r \in DOMAIN reqs :
          /\ r < last.req /\ reqs[r].pc = "done" /\ reqs[r].forecast = "ok"
          /\ Has(reqs[r].alertsAnswer)
          /\ ~NoAdvisories(The(reqs[r].alertsAnswer).body)

(***************************************************************************)
(* Properties of payloads without the optional daily arrays.               *)
(***************************************************************************)
\* The daily section d has none of the arrays the code tests before use.
LacksOptionals(d) ==
    /\ ~Has(d.sunrise) /\ ~Has(d.sunset)
    /\ ~Has(d.precipitation_probability_max) /\ ~Has(d.wind_speed_10m_max)

\* The payloads of the feed that agree with p on everything but the
\* optional daily arrays, and have them all.
Twins(p) ==
    {q \in RenderPayloads :
        /\ Complete(q) /\ q.current = p.current /\ q.hourly = p.hourly
        /\ LET d == The(p.daily)
               e == The(q.daily)
           IN  /\ e.time = d.time /\ e.weather_code = d.weather_code
               /\ e.temperature_2m_max = d.temperature_2m_max
               /\ e.temperature_2m_min = d.temperature_2m_min
               /\ Has(e.sunrise) /\ Has(e.sunset) /\ Has(e.uv_index_max)
               /\ Has(e.precipitation_probability_max) /\ Has(e.wind_speed_10m_max)}

\* A view with the fields read from the optional daily arrays blanked.
WithoutOptionalFields(v) ==
    [v EXCEPT !.sunrise = None, !.sunset = None, !.rainChance = None, !.uvIndex = None,
              !.forecastList = [k \in DOMAIN @ |->
                                   [@[k] EXCEPT !.rain = 0, !.wind = <<0, "">>,
                                                !.sunrise = None, !.sunset = None]]]

\* C21: when the optional daily arrays are absent from the retained payload,
\* the today block shows rain chance 0 and sunrise and sunset '--:--', every
\* entry of the forecast list shows rain 0, sunrise and sunset '--:--' and
\* the wind of 0 in the unit on display, and every other field is what the
\* same payload with the optional arrays present renders.
C21_OptionalDefaults ==
    (Rendered /\ LacksOptionals(The(PayloadAt(The(currentWeatherData)).daily))) =>
        /\ dom.view.rainChance = Some(0)
        /\ dom.view.sunrise = Some(None) /\ dom.view.sunset = Some(None)
        /\ \A k \in DOMAIN dom.view.forecastList :
              LET item == dom.view.forecastList[k]
              IN  /\ item.rain = 0
                  /\ item.sunrise = None /\ item.sunset = None
                  /\ item.wind = <<0, IF isCelsius THEN "km/h" ELSE "mph">>
        /\ \E q \in Twins(PayloadAt(The(currentWeatherData))) :
              WithoutOptionalFields(dom.view)
                  = WithoutOptionalFields(paintView(q, currentLocationName, isCelsius, now,
                                                    env.revision, env.west))

\* C21 witness: a payload without the optional arrays is on display in
\* Celsius with five days in the forecast list.
C21_Witness ==
    /\ Rendered /\ LacksOptionals(The(PayloadAt(The(currentWeatherData)).daily))
    /\ ~dom.dataHidden /\ isCelsius
    /\ Len(dom.view.forecastList) = 5
    /\ dom.view.forecastList[5].wind = <<0, "km/h">>
    /\ dom.view.rainChance = Some(0)

(***************************************************************************)
(* Properties of the forecast list of script.js.                           *)
(***************************************************************************)
\* The retained daily section of script.js has 6 entries on consecutive
\* dates, the first being day number first.
SixDaysFrom(first) ==
    /\ Rendered /\ env.revision = "script"
    /\ LET time == The(RetainedDaily.time)
       IN  /\ Len(time) = 6
           /\ \A i \in 0..5 : DateParseDay(At(time, i)) = first + i

\* The indices of the daily entries dated strictly after today.
AfterToday(time) ==
    {i \in 0..(Len(time) - 1) : DateParseDay(At(time, i)) > now \div 24}

\* C22: in script.js, for a payload of 6 consecutive dates whose first date
\* is today or yesterday on the browser's clock, the forecast list has
\* exactly 5 entries, and they are the entries dated after today, in order.
C22_NextFiveDays ==
    (SixDaysFrom(now \div 24) \/ SixDaysFrom((now \div 24) - 1)) =>
        LET later == AfterToday(The(RetainedDaily.time))
        IN  /\ Len(dom.view.forecastList) = 5
            /\ Cardinality(later) >= 5
            /\ \A k \in 1..5 :
                  dom.view.forecastList[k] =
                      forecastItem(RetainedDaily, Nth(later, k), isCelsius, env.west)

(***************************************************************************)
(* Properties of what the page shows.                                      *)
(***************************************************************************)
\* C23: after any sequence of searches, current-location requests, unit
\* toggles and fetch completions, the error message and the weather-data
\* panel are never both visible.
C23_ErrorOrData == ~(~dom.errorHidden /\ ~dom.dataHidden)

\* The requests still waiting for the geolocation lookup, the place search
\* or the forecast.
InFlight == {r \in DOMAIN reqs : reqs[r].pc # "done"}

\* C24: under every interleaving of overlapping requests the loading
\* indicator is visible whenever a request is in flight, and while it is
\* visible the weather-data panel is hidden.
C24_LoadingWhileInFlight ==
    /\ InFlight # {} => ~dom.loadingHidden
    /\ ~dom.loadingHidden => dom.dataHidden

\* Request r, once started, settles.
EventuallySettles(r) == [](r \in DOMAIN reqs => <>(r \in DOMAIN reqs /\ reqs[r].pc = "done"))

\* A request has settled and none is in flight.
Quiet == last.req # 0 /\ InFlight = {}

\* C25: when every external call eventually answers or fails, every request
\* the user starts eventually settles, and whenever a request has settled
\* and none is in flight the loading indicator is hidden and the error
\* message or the weather-data panel is visible.
C25_SettlesAndShows ==
    /\ \A r \in 1..MaxReq : EventuallySettles(r)
    /\ [](Quiet => /\ dom.loadingHidden
                   /\ ~dom.errorHidden \/ ~dom.dataHidden)

=============================================================================
